---- MODULE Spec2Model ----
(***************************************************************************)
(* uok-chat: the client-side state machine of the chat application.        *)
(*                                                                         *)
(*   AppRouter.tsx       the router's mirror of pb.authStore.isValid       *)
(*   pages/ChatPage.tsx  the conversation view (first UKChatApp component, *)
(*                       lines 28-286: the one whose subscription callback *)
(*                       de-duplicates by identifier)                      *)
(*   pages/AuthPage.tsx  the authentication view                           *)
(*                                                                         *)
(* The UI thread runs one callback at a time, so every handler is one      *)
(* atomic action; an `await` splits a handler into the step before it and  *)
(* the step that resumes it.  React re-renders after every state update    *)
(* and before the next callback, so the `messages`, `newMessage` and       *)
(* `currentUser` a handler closes over are the current state.              *)
(*                                                                         *)
(* A message is modelled by its id, text and userId.  The fields `created` *)
(* and `expand` are copied through by every operation and read by none of  *)
(* them, so they are left out.  Text is a sequence of characters.          *)
(***************************************************************************)
EXTENDS Integers, Sequences, FiniteSets, TLC

\* ---------------------------------------------------------------- bounds
MaxMsgs == 2       \* longest visible list the model grows by appending
MaxMounts == 2     \* how often the conversation view is mounted
MaxCreates == 1    \* durable create calls in flight at once

\* ------------------------------------------------------------------ data
Users == {"u1", "u2"}
MsgIds == {"m1", "m2"}
NoUser == "null"
Actions == {"create", "update", "delete"}
Keys == {"Enter", "a"}

\* Composer inputs: empty, whitespace only, plain, padded with whitespace.
Texts == {<<>>, <<" ">>, <<"a">>, <<" ", "a", " ">>}

\* A record of the messages collection as the service sends it.
Records == [id : MsgIds, userId : Users, text : {<<"a">>}]

RECURSIVE SeqsUpTo(_, _)
SeqsUpTo(S, n) ==
  IF n = 0 THEN {<<>>}
  ELSE LET shorter == SeqsUpTo(S, n - 1)
       IN  shorter \cup {Append(s, x) : s \in {t \in shorter : Len(t) = n - 1}, x \in S}

Ids(list) == {list[i].id : i \in 1..Len(list)}

DistinctIds(list) == \A i, j \in 1..Len(list) : list[i].id = list[j].id => i = j

\* getFullList returns the stored records: each identifier once.
FetchResults == {l \in SeqsUpTo(Records, Cardinality(MsgIds)) : DistinctIds(l)}

\* ------------------------------------------------------- String.trim()
RECURSIVE trimStart(_)
trimStart(s) ==
  IF s # <<>> /\ Head(s) = " " THEN trimStart(Tail(s)) ELSE s

RECURSIVE trimEnd(_)
trimEnd(s) ==
  IF s # <<>> /\ s[Len(s)] = " " THEN trimEnd(SubSeq(s, 1, Len(s) - 1)) ELSE s

trim(s) == trimEnd(trimStart(s))

\* --------------------------------------------------------------- state
VARIABLES
  isValid,         \* pb.authStore.isValid
  record,          \* pb.authStore.record: the id of the signed-in user, or NoUser
  authenticated,   \* AppRouter's useState mirror of isValid
  inst,            \* the mounted UKChatApp instance (0: none is mounted)
  mounts,          \* how many instances have been mounted so far
  messages,        \* UKChatApp: useState<Message[]>
  newMessage,      \* UKChatApp: the composer input
  fetches,         \* instances whose getFullList call is in flight
  subs,            \* instances whose subscription callback is registered
  creates,         \* messages.create calls in flight, in the order issued: the
                   \* body of each and (history) the list's length before its
                   \* send and whether only callbacks of the service ran since
  email, password, passwordConfirm, name,   \* AuthPage form fields
  error,           \* AuthPage: the inline error message, or NoError
  isLoginView,     \* AuthPage: login form (TRUE) or signup form
  isLoading,       \* AuthPage: the loading flag
  authCall,        \* AuthPage: the external call in flight
  last,            \* history: the callback that ran last, with its input
  run              \* history: the remote creation events delivered to the
                   \* mounted view since any other callback ran, and the
                   \* list before the first of them

authVars == <<isValid, record, authenticated>>
chatVars == <<inst, mounts, messages, newMessage>>
netVars == <<fetches, subs, creates>>
formVars == <<email, password, passwordConfirm, name, error, isLoginView, isLoading, authCall>>
vars == <<authVars, chatVars, netVars, formVars, last, run>>

NoError == "null"
NoRun(list) == [pre |-> list, evs |-> <<>>]

\* pb.authStore.record read when UKChatApp renders (ChatPage.tsx:31).
currentUser == record

\* ------------------------------------------------- ChatPage.tsx, pure parts
toMessage(rec) == [id |-> rec.id, text |-> rec.text, userId |-> rec.userId]

\* Mutant: the new entry is put in front of the list.
appendIfNew_Prepend(prev, rec) ==
  IF \E i \in 1..Len(prev) : prev[i].id = rec.id
  THEN prev
  ELSE <<toMessage(rec)>> \o prev

\* Mutant: the updater appends without looking for the identifier.
appendIfNew_NoDedup(prev, rec) == Append(prev, toMessage(rec))

\* The updater handed to setMessages by the subscription callback.
appendIfNew(prev, rec) ==
  IF \E i \in 1..Len(prev) : prev[i].id = rec.id
  THEN prev
  ELSE Append(prev, toMessage(rec))

\* Mutant: events of every action are treated as creations.
onEvent_AnyAction(prev, action, rec, authId) ==
  IF rec.userId = authId THEN prev ELSE appendIfNew(prev, rec)

\* Mutant: the callback does not look at the author.
onEvent_NoAuthorFilter(prev, action, rec, authId) ==
  IF action = "create" THEN appendIfNew(prev, rec) ELSE prev

\* The subscription callback: the list it leaves, given the list it finds.
onEvent(prev, action, rec, authId) ==
  IF action = "create"
  THEN IF rec.userId = authId THEN prev ELSE appendIfNew(prev, rec)
  ELSE prev

\* Mutant: the listener sets the flag without reading the store.
onChange_AlwaysTrue(valid) == TRUE

\* The authStore.onChange listener: the value it hands to setAuthenticated.
onChange(valid) == valid

\* The element of the "/" route.
rootView == IF authenticated THEN "chat" ELSE "auth"

\* Mutant: the fetched records are added to the list.
loaded_Concat(prev, recs) == prev \o recs

\* Mutant: the entries of local sends survive the fetch.
loaded_KeepLocal(prev, recs) == SelectSeq(prev, LAMBDA m : m.id \in Users) \o recs

\* loadMessages: the list after getFullList resolved with recs.
loaded(prev, recs) == recs

\* Mutant: the input is tested without trimming it.
sendRejected_NoTrim(input, user) == input = <<>> \/ user = NoUser

\* handleSendMessage's early return.
sendRejected(input, user) == trim(input) = <<>> \/ user = NoUser

\* The provisional entry handleSendMessage appends.
provisional(input, user) == [id |-> user, text |-> input, userId |-> user]

\* Mutant: the list is replaced by the provisional entry.
sentList_Replace(prev, input, user) == <<provisional(input, user)>>

\* The list handleSendMessage hands to setMessages.
sentList(prev, input, user) == Append(prev, provisional(input, user))

\* The body of the create call handleSendMessage issues.
createBody(input, user) == [text |-> input, userId |-> user]

\* Mutant: the catch block takes the provisional entry of the call back out.
afterCreateFailed_Rollback(list, call) ==
  SelectSeq(list, LAMBDA m : ~(m.id = call.body.userId /\ m.text = call.body.text))

\* The catch block of handleSendMessage: it logs, the list stays as it is.
afterCreateFailed(list, call) == list

\* The cleanup of the mount effect: the effect returns none, so the
\* subscriptions registered so far all stay registered.
subsAfterUnmount(registered, k) == registered

\* ------------------------------------------------- AuthPage.tsx, pure parts
Emails == {"", "e"}
Names == {"", "n"}
Passwords == {"", "p", "q"}

\* Field messages of the service that contain "value must be unique",
\* whatever their case.
UniqueMessages == {"The value must be unique."}

\* The errors an external call is rejected with: whether it carries
\* response.data, the messages of the fields of response.data in order, and
\* its own message.
Errs ==
  { [hasData |-> FALSE, fields |-> <<>>, message |-> "Failed to fetch"],
    [hasData |-> FALSE, fields |-> <<>>, message |-> ""],
    [hasData |-> TRUE, fields |-> <<>>, message |-> "Failed to authenticate."],
    [hasData |-> TRUE, fields |-> <<"The value must be unique.">>,
     message |-> "Failed to create record."],
    [hasData |-> TRUE, fields |-> <<"Cannot be blank.", "The value must be unique.">>,
     message |-> "Failed to create record."],
    [hasData |-> TRUE, fields |-> <<"">>, message |-> "Failed to create record."] }

parsePbError(err) ==
  IF err.hasData /\ Len(err.fields) > 0 /\ err.fields[1] # ""
  THEN IF err.fields[1] \in UniqueMessages
       THEN "Account with this email already exists"
       ELSE err.fields[1]
  ELSE IF err.message # "" THEN err.message ELSE "An unknown error occurred."

\* handleLogin's check before any call: the error it sets, or NoError.
loginCheck(e, p) ==
  IF e = "" \/ p = "" THEN "Please enter both email and password." ELSE NoError

\* Mutant: the password is not compared with its confirmation.
signupCheck_NoConfirm(e, p, pc, n) ==
  IF e = "" \/ p = "" \/ pc = "" \/ n = "" THEN "Please fill in all required fields."
  ELSE NoError

\* handleSignup's checks before any call: the error they set, or NoError.
signupCheck(e, p, pc, n) ==
  IF e = "" \/ p = "" \/ pc = "" \/ n = "" THEN "Please fill in all required fields."
  ELSE IF p # pc THEN "Passwords do not match."
  ELSE NoError

\* ------------------------------------------------------ mount and unmount
\* useState's initial values of AuthPage; also what the model holds for the
\* form while AuthPage is not mounted.
FormInitial ==
  /\ email' = "" /\ password' = "" /\ passwordConfirm' = "" /\ name' = ""
  /\ error' = NoError /\ isLoginView' = TRUE /\ isLoading' = FALSE

\* UKChatApp mounts: useState's initial values, then the mount effect calls
\* loadMessages() and subscribeToMessages().
ChatMounts ==
  /\ inst' = mounts + 1
  /\ mounts' = mounts + 1
  /\ messages' = <<>>
  /\ newMessage' = <<>>
  /\ fetches' = fetches \cup {mounts + 1}
  /\ subs' = subs \cup {mounts + 1}

\* UKChatApp unmounts: its state is dropped, the effect's cleanup runs.
ChatUnmounts ==
  /\ inst' = 0
  /\ mounts' = mounts
  /\ messages' = <<>>
  /\ newMessage' = <<>>
  /\ subs' = subsAfterUnmount(subs, inst)

Init ==
  /\ isValid \in BOOLEAN
  /\ record \in (IF isValid THEN Users ELSE {NoUser})
  /\ authenticated = isValid
  /\ inst = (IF isValid THEN 1 ELSE 0)
  /\ mounts = inst
  /\ messages = <<>>
  /\ newMessage = <<>>
  /\ fetches = (IF isValid THEN {1} ELSE {})
  /\ subs = fetches
  /\ creates = <<>>
  /\ email = "" /\ password = "" /\ passwordConfirm = "" /\ name = ""
  /\ error = NoError /\ isLoginView = TRUE /\ isLoading = FALSE
  /\ authCall = "none"
  /\ last = [op |-> "init"]
  /\ run = NoRun(<<>>)

\* ------------------------------------------------------------ UKChatApp
\* getFullList of instance k resolves with recs: setMessages(records).
FetchOk(k, recs) ==
  /\ k \in fetches
  /\ fetches' = fetches \ {k}
  /\ messages' = IF k = inst THEN loaded(messages, recs) ELSE messages
  /\ last' = IF k = inst
             THEN [op |-> "fetchOk", inst |-> k, recs |-> recs, before |-> messages]
             ELSE [op |-> "fetchOk", inst |-> k]
  /\ run' = NoRun(messages')
  /\ UNCHANGED <<authVars, inst, mounts, newMessage, subs, creates, formVars>>

\* getFullList of instance k is rejected: console.error.
FetchFail(k) ==
  /\ k \in fetches
  /\ fetches' = fetches \ {k}
  /\ last' = [op |-> "fetchFail", inst |-> k, before |-> messages]
  /\ run' = NoRun(messages)
  /\ UNCHANGED <<authVars, chatVars, subs, creates, formVars>>

\* Whether the event extends the current run of remote creation events with
\* pairwise distinct identifiers and authors other than the local user.
ExtendsRun(k, action, rec) ==
  /\ k = inst
  /\ action = "create"
  /\ rec.userId # record
  /\ rec.id \notin Ids(run.evs)

\* The service delivers an event to the callback instance k registered.
\* setMessages of an unmounted instance changes nothing.
SubEvent(k, action, rec) ==
  /\ k \in subs
  /\ Len(onEvent(messages, action, rec, record)) <= MaxMsgs
  /\ messages' = IF k = inst THEN onEvent(messages, action, rec, record) ELSE messages
  /\ last' = IF k = inst
             THEN [op |-> "event", inst |-> k, action |-> action, rec |-> rec,
                   before |-> messages]
             ELSE [op |-> "event", inst |-> k]
  /\ run' = IF ExtendsRun(k, action, rec)
            THEN [pre |-> run.pre, evs |-> Append(run.evs, rec)]
            ELSE NoRun(messages')
  /\ UNCHANGED <<authVars, inst, mounts, newMessage, netVars, formVars>>

\* History: a callback of the user interface ran while the calls were in flight.
Disturbed(calls) == [i \in 1..Len(calls) |-> [calls[i] EXCEPT !.onlyRemote = FALSE]]

\* The composer's onChange: setNewMessage(e.target.value).
TypeMessage(t) ==
  /\ inst # 0
  /\ newMessage' = t
  /\ creates' = Disturbed(creates)
  /\ last' = [op |-> "type", text |-> t]
  /\ run' = NoRun(messages)
  /\ UNCHANGED <<authVars, inst, mounts, messages, fetches, subs, formVars>>

\* handleSendMessage up to its await, called through `via`.
handleSendMessage(via) ==
  /\ inst # 0
  /\ last' = [op |-> "send", via |-> via, input |-> newMessage, before |-> messages]
  /\ IF sendRejected(newMessage, currentUser)
     THEN /\ creates' = Disturbed(creates)
          /\ UNCHANGED <<messages, newMessage>>
     ELSE /\ Len(messages) < MaxMsgs
          /\ Len(creates) < MaxCreates
          /\ messages' = sentList(messages, newMessage, currentUser)
          /\ newMessage' = <<>>
          /\ creates' = Append(Disturbed(creates),
                               [body |-> createBody(newMessage, currentUser),
                                sentAt |-> Len(messages), onlyRemote |-> TRUE])
  /\ run' = NoRun(messages')
  /\ UNCHANGED <<authVars, inst, mounts, fetches, subs, formVars>>

\* The send button; it is disabled while the input trims to nothing.
SendClick ==
  /\ trim(newMessage) # <<>>
  /\ handleSendMessage("click")

\* handleKeyPress.
KeyPress(key, shiftKey) ==
  /\ inst # 0
  /\ IF key = "Enter" /\ ~shiftKey
     THEN handleSendMessage("key")
     ELSE /\ last' = [op |-> "key", key |-> key, shiftKey |-> shiftKey]
          /\ run' = NoRun(messages)
          /\ creates' = Disturbed(creates)
          /\ UNCHANGED <<authVars, chatVars, fetches, subs, formVars>>

Without(s, i) == SubSeq(s, 1, i - 1) \o SubSeq(s, i + 1, Len(s))

\* The i-th create call in flight resolves: handleSendMessage resumes and ends.
CreateOk(i) ==
  /\ i \in 1..Len(creates)
  /\ creates' = Without(creates, i)
  /\ messages' = messages
  /\ newMessage' = newMessage
  /\ last' = [op |-> "createOk", call |-> creates[i], before |-> messages,
               input |-> newMessage]
  /\ run' = NoRun(messages)
  /\ UNCHANGED <<authVars, inst, mounts, fetches, subs, formVars>>

\* The i-th create call in flight is rejected: console.error.
CreateFail(i) ==
  /\ i \in 1..Len(creates)
  /\ creates' = Without(creates, i)
  /\ messages' = afterCreateFailed(messages, creates[i])
  /\ last' = [op |-> "createFail", call |-> creates[i], before |-> messages,
               input |-> newMessage, calls |-> Len(creates)]
  /\ run' = NoRun(messages')
  /\ UNCHANGED <<authVars, inst, mounts, newMessage, fetches, subs, formVars>>

\* Mutant: handleLogout empties the list and leaves the auth store alone.
handleLogout_NoClear ==
  /\ inst # 0
  /\ messages' = <<>>
  /\ creates' = Disturbed(creates)
  /\ last' = [op |-> "logout", before |-> messages]
  /\ run' = NoRun(messages')
  /\ UNCHANGED <<authVars, inst, mounts, newMessage, fetches, subs, formVars>>

\* handleLogout: authStore.clear() notifies the router's listener, then
\* setMessages([]); the re-render replaces UKChatApp by AuthPage.
handleLogout ==
  /\ inst # 0
  /\ isValid' = FALSE
  /\ record' = NoUser
  /\ authenticated' = onChange(isValid')
  /\ IF authenticated'
     THEN /\ messages' = <<>>
          /\ UNCHANGED <<inst, mounts, newMessage, subs>>
     ELSE ChatUnmounts
  /\ creates' = Disturbed(creates)
  /\ last' = [op |-> "logout", before |-> messages]
  /\ run' = NoRun(messages')
  /\ UNCHANGED <<fetches, formVars>>

\* The external auth client invalidates the session by itself (expiry, a
\* logout elsewhere) and notifies the listeners of the auth store.
StoreCleared ==
  /\ isValid
  /\ isValid' = FALSE
  /\ record' = NoUser
  /\ authenticated' = onChange(isValid')
  /\ IF authenticated'
     THEN UNCHANGED <<inst, mounts, messages, newMessage, subs>>
     ELSE ChatUnmounts
  /\ creates' = Disturbed(creates)
  /\ last' = [op |-> "cleared"]
  /\ run' = NoRun(messages')
  /\ UNCHANGED <<fetches, formVars>>

\* -------------------------------------------------------------- AuthPage
\* An input's onChange: set the field, setError(null).  The inputs are
\* disabled while loading; name and passwordConfirm exist in the signup form.
SetEmail(v) ==
  /\ inst = 0 /\ ~isLoading
  /\ email' = v /\ error' = NoError
  /\ last' = [op |-> "field", field |-> "email"]
  /\ UNCHANGED <<authVars, chatVars, netVars, password, passwordConfirm, name,
                 isLoginView, isLoading, authCall, run>>

SetPassword(v) ==
  /\ inst = 0 /\ ~isLoading
  /\ password' = v /\ error' = NoError
  /\ last' = [op |-> "field", field |-> "password"]
  /\ UNCHANGED <<authVars, chatVars, netVars, email, passwordConfirm, name,
                 isLoginView, isLoading, authCall, run>>

SetPasswordConfirm(v) ==
  /\ inst = 0 /\ ~isLoading /\ ~isLoginView
  /\ passwordConfirm' = v /\ error' = NoError
  /\ last' = [op |-> "field", field |-> "passwordConfirm"]
  /\ UNCHANGED <<authVars, chatVars, netVars, email, password, name,
                 isLoginView, isLoading, authCall, run>>

SetName(v) ==
  /\ inst = 0 /\ ~isLoading /\ ~isLoginView
  /\ name' = v /\ error' = NoError
  /\ last' = [op |-> "field", field |-> "name"]
  /\ UNCHANGED <<authVars, chatVars, netVars, email, password, passwordConfirm,
                 isLoginView, isLoading, authCall, run>>

\* The switch-mode link: the other form, with every field and the error reset.
SwitchMode ==
  /\ inst = 0 /\ ~isLoading
  /\ isLoginView' = ~isLoginView
  /\ error' = NoError
  /\ email' = "" /\ password' = "" /\ passwordConfirm' = "" /\ name' = ""
  /\ last' = [op |-> "switch"]
  /\ UNCHANGED <<authVars, chatVars, netVars, isLoading, authCall, run>>

\* handleLogin up to its await (main button or Enter in the password input
\* of the login form).
handleLogin ==
  /\ inst = 0 /\ ~isLoading /\ isLoginView
  /\ last' = [op |-> "login", calls |-> authCall]
  /\ IF loginCheck(email, password) # NoError
     THEN /\ error' = loginCheck(email, password)
          /\ UNCHANGED <<isLoading, authCall>>
     ELSE /\ error' = NoError
          /\ isLoading' = TRUE
          /\ authCall' = "login"
  /\ UNCHANGED <<authVars, chatVars, netVars, email, password, passwordConfirm,
                 name, isLoginView, run>>

\* handleSignup up to its first await (main button or Enter in an input of
\* the signup form).
handleSignup ==
  /\ inst = 0 /\ ~isLoading /\ ~isLoginView
  /\ last' = [op |-> "signup", calls |-> authCall]
  /\ IF signupCheck(email, password, passwordConfirm, name) # NoError
     THEN /\ error' = signupCheck(email, password, passwordConfirm, name)
          /\ UNCHANGED <<isLoading, authCall>>
     ELSE /\ error' = NoError
          /\ isLoading' = TRUE
          /\ authCall' = "create"
  /\ UNCHANGED <<authVars, chatVars, netVars, email, password, passwordConfirm,
                 name, isLoginView, run>>

\* users.create resolves: handleSignup goes on to authWithPassword.
SignupCreated ==
  /\ authCall = "create"
  /\ authCall' = "signupAuth"
  /\ last' = [op |-> "created"]
  /\ UNCHANGED <<authVars, chatVars, netVars, email, password, passwordConfirm,
                 name, error, isLoginView, isLoading, run>>

\* authWithPassword resolves with user u: the auth store is saved and its
\* listener runs, the re-render replaces AuthPage by UKChatApp, and the
\* handler's `finally` sets the loading flag of the unmounted AuthPage.
AuthOk(u) ==
  /\ authCall \in {"login", "signupAuth"}
  /\ mounts < MaxMounts
  /\ isValid' = TRUE
  /\ record' = u
  /\ authenticated' = onChange(isValid')
  /\ authCall' = "none"
  /\ IF authenticated'
     THEN /\ ChatMounts
          /\ FormInitial
     ELSE /\ isLoading' = FALSE
          /\ UNCHANGED <<chatVars, fetches, subs, email, password, passwordConfirm,
                         name, error, isLoginView>>
  /\ last' = [op |-> "authOk", user |-> u]
  /\ run' = NoRun(messages')
  /\ UNCHANGED creates

\* Mutant: the handlers have no `finally`.
AuthFail_NoFinally(err) ==
  /\ authCall # "none"
  /\ error' = parsePbError(err)
  /\ authCall' = "none"
  /\ last' = [op |-> "authFail", call |-> authCall]
  /\ UNCHANGED <<authVars, chatVars, netVars, email, password, passwordConfirm,
                 name, isLoginView, isLoading, run>>

\* users.create or authWithPassword is rejected with err: setError, then
\* `finally` resets the loading flag.
AuthFail(err) ==
  /\ authCall # "none"
  /\ error' = parsePbError(err)
  /\ isLoading' = FALSE
  /\ authCall' = "none"
  /\ last' = [op |-> "authFail", call |-> authCall]
  /\ UNCHANGED <<authVars, chatVars, netVars, email, password, passwordConfirm,
                 name, isLoginView, run>>

\* ------------------------------------------------------------------ Next
\* The whole application: the router, AuthPage and every UKChatApp instance
\* it mounts.  The inputs of the two views are kept light here (one composer
\* text, one record per author, fetch results of at most one record, one
\* value per form field, two errors); SpecChat below checks one session of
\* the conversation view with its full inputs.
AppTexts == {<<"a">>}
AppRecords == {r \in Records : (r.id = "m1") = (r.userId = "u1")}
AppFetchResults == {l \in SeqsUpTo(AppRecords, 1) : TRUE}
AppEmails == Emails \ {""}
AppPasswords == Passwords \ {"", "q"}
AppNames == Names \ {""}
AppErrs == {e \in Errs : e.fields = <<>> /\ e.message # ""}

Next ==
  \/ \E k \in 1..MaxMounts, recs \in AppFetchResults : FetchOk(k, recs)
  \/ \E k \in 1..MaxMounts : FetchFail(k)
  \/ \E k \in 1..MaxMounts, a \in Actions, rec \in AppRecords : SubEvent(k, a, rec)
  \/ \E t \in AppTexts : TypeMessage(t)
  \/ SendClick
  \/ \E key \in Keys, shiftKey \in BOOLEAN : KeyPress(key, shiftKey)
  \/ \E i \in 1..MaxCreates : CreateOk(i)
  \/ \E i \in 1..MaxCreates : CreateFail(i)
  \/ handleLogout
  \/ StoreCleared
  \/ \E v \in AppEmails : SetEmail(v)
  \/ \E v \in AppPasswords : SetPassword(v)
  \/ \E v \in AppPasswords : SetPasswordConfirm(v)
  \/ \E v \in AppNames : SetName(v)
  \/ SwitchMode
  \/ handleLogin
  \/ handleSignup
  \/ SignupCreated
  \/ \E u \in Users : AuthOk(u)
  \/ \E err \in AppErrs : AuthFail(err)

Spec == Init /\ [][Next]_vars

\* One session of the conversation view: the application opens with a
\* cached valid session, so UKChatApp is what the router mounts first.
InitChat == Init /\ isValid

NextChat ==
  \/ \E recs \in FetchResults : FetchOk(inst, recs)
  \/ FetchFail(inst)
  \/ \E a \in Actions, rec \in Records : SubEvent(inst, a, rec)
  \/ \E t \in Texts : TypeMessage(t)
  \/ SendClick
  \/ \E key \in Keys, shiftKey \in BOOLEAN : KeyPress(key, shiftKey)
  \/ \E i \in 1..MaxCreates : CreateOk(i)
  \/ \E i \in 1..MaxCreates : CreateFail(i)

SpecChat == InitChat /\ [][NextChat]_vars

\* One stay on the authentication view: the application opens without a
\* session, and the form is used with its full inputs until a sign-in succeeds.
InitAuth == Init /\ ~isValid

NextAuth ==
  \/ \E v \in Emails : SetEmail(v)
  \/ \E v \in Passwords : SetPassword(v)
  \/ \E v \in Passwords : SetPasswordConfirm(v)
  \/ \E v \in Names : SetName(v)
  \/ SwitchMode
  \/ handleLogin
  \/ handleSignup
  \/ SignupCreated
  \/ \E u \in Users : AuthOk(u)
  \/ \E err \in Errs : AuthFail(err)

SpecAuth == InitAuth /\ [][NextAuth]_vars

\* A call of the PocketBase client settles: its promise is resolved or
\* rejected, and the handler awaiting it is resumed.
CallSettles ==
  \/ SignupCreated
  \/ \E u \in Users : AuthOk(u)
  \/ \E err \in Errs : AuthFail(err)

SpecAuthFair == SpecAuth /\ WF_vars(CallSettles)

\* ======================================================================
\* Claims about the conversation view (SpecChat)
\* ======================================================================
IdsOf(list) == [i \in 1..Len(list) |-> list[i].id]
Occurrences(list, id) == Cardinality({i \in 1..Len(list) : list[i].id = id})
EventToMounted == last.op = "event" /\ last.inst = inst /\ last.action = "create"

C3_OwnEventIgnored ==
  (EventToMounted /\ last.rec.userId = record) => messages = last.before

C3_Witness ==
  /\ EventToMounted
  /\ last.rec.userId = record
  /\ last.rec.id \notin Ids(last.before)
  /\ last.before # <<>>

\* C4: a send while the composer input is empty or whitespace only appends
\* nothing, leaves the input as it is and issues no create call.
C4_BlankSendDoesNothing ==
  [][(last'.op = "send" /\ trim(last'.input) = <<>>) =>
       /\ messages' = messages
       /\ newMessage' = newMessage
       /\ Len(creates') = Len(creates)
       /\ \A i \in 1..Len(creates) : creates'[i].body = creates[i].body]_vars

C4_Witness ==
  /\ last.op = "send"
  /\ last.input = <<" ">>
  /\ last.before # <<>>
  /\ newMessage = <<" ">>

\* C5 as stated: once the create call of a send has succeeded, with nothing
\* but remote events and fetch completions in between, the visible list is
\* exactly one longer than it was before the send and the input is empty.
C5_OneLongerAtSuccess ==
  (last.op = "createOk" /\ last.call.onlyRemote) =>
    /\ Len(messages) = last.call.sentAt + 1
    /\ newMessage = <<>>

\* C5 amended: an accepted send leaves the visible list the list it found
\* plus one entry and the input empty, and the success of its create call
\* changes neither the list nor the input.
C5_SendAppendsOne ==
  /\ (last.op = "send" /\ ~sendRejected(last.input, record)) =>
       /\ Len(messages) = Len(last.before) + 1
       /\ SubSeq(messages, 1, Len(last.before)) = last.before
       /\ newMessage = <<>>
  /\ last.op = "createOk" =>
       /\ messages = last.before
       /\ newMessage = last.input

C5_Witness ==
  /\ last.op = "send"
  /\ ~sendRejected(last.input, record)
  /\ last.before # <<>>
  /\ fetches # {}

C7_DistinctIds == DistinctIds(messages)

\* C9: a successful initial fetch makes the visible list exactly the fetched
\* records in fetched order, whatever it held; a failed one leaves it as it was.
C9_FetchReplaces ==
  /\ (last.op = "fetchOk" /\ last.inst = inst) => messages = last.recs
  /\ last.op = "fetchFail" => messages = last.before

C9_Witness ==
  /\ last.op = "fetchOk" /\ last.inst = inst
  /\ \E i, j \in 1..Len(last.before) :
       last.before[i].id = record /\ last.before[j].id \in MsgIds
  /\ last.recs # <<>>

\* ======================================================================
\* Claims about the router and the life of the views (Spec)
\* ======================================================================
\* C8: the router's flag equals the validity of the auth store after every
\* change of the store, so the "/" route shows the authentication view
\* while the session is invalid and the conversation view while it is
\* valid; a successful login or signup switches it to the conversation view.
C8_RouterMirrorsValidity ==
  /\ authenticated = isValid
  /\ rootView = (IF isValid THEN "chat" ELSE "auth")
  /\ (inst # 0) = isValid
  /\ last.op = "authOk" => (rootView = "chat" /\ inst = mounts)

C8_Witness ==
  /\ last.op = "authOk"
  /\ isValid
  /\ rootView = "chat"
  /\ mounts = 2

\* C10: while the conversation view is not displayed no subscription
\* callback is registered, and at no time is more than one registered.
C10_SubscriptionTornDown ==
  /\ inst = 0 => subs = {}
  /\ Cardinality(subs) <= 1

\* ======================================================================
\* Further claims about the conversation view (SpecChat)
\* ======================================================================
\* C11: when the create call of a send is rejected the visible list stays
\* as it is, provisional entry included, the composer input stays as it is
\* (the send had emptied it), and no create call is issued in its place.
C11_NoRollbackNoRetry ==
  last.op = "createFail" =>
    /\ messages = last.before
    /\ newMessage = last.input
    /\ Len(creates) = last.calls - 1
    /\ (last.call.onlyRemote /\ fetches # {}) =>
         /\ newMessage = <<>>
         /\ \E i \in 1..Len(messages) :
              messages[i] = provisional(last.call.body.text, last.call.body.userId)

C11_Witness ==
  /\ last.op = "createFail"
  /\ last.call.onlyRemote /\ fetches # {}
  /\ Len(messages) = 2
  /\ creates = <<>>

\* C12: the create call an accepted send issues carries the trimmed text of
\* the composer input and the identifier of the local user as author.
C12_CreateCarriesTrimmedText ==
  (last.op = "send" /\ ~sendRejected(last.input, record)) =>
    /\ creates # <<>>
    /\ creates[Len(creates)].body = [text |-> trim(last.input), userId |-> record]

\* C15: a subscription event whose action is not "create" leaves the
\* visible list as it was, whoever its author and whatever its identifier.
C15_OtherActionsIgnored ==
  (last.op = "event" /\ last.inst = inst /\ last.action # "create") =>
    messages = last.before

C15_Witness ==
  /\ last.op = "event" /\ last.inst = inst
  /\ last.action = "delete"
  /\ last.rec.userId # record
  /\ last.rec.id \in Ids(last.before)
  /\ Len(last.before) < MaxMsgs

\* ======================================================================
\* Further claims about the router and the views (Spec, SpecAuth)
\* ======================================================================
\* C13: a logout leaves the auth store empty and the session invalid, no
\* message visible, and the "/" route showing the authentication view; the
\* session becomes valid only by a login or signup call that succeeded.
C13_LogoutEndsSession ==
  [][/\ last'.op = "logout" =>
          /\ ~isValid' /\ record' = NoUser
          /\ messages' = <<>>
          /\ authenticated' = FALSE /\ rootView' = "auth" /\ inst' = 0
     /\ (~isValid /\ isValid') =>
          /\ last'.op = "authOk"
          /\ authCall \in {"login", "signupAuth"}]_vars

C13_Witness ==
  /\ last.op = "logout"
  /\ last.before # <<>>
  /\ ~isValid
  /\ rootView = "auth"

\* C14: a login attempt with the email or the password empty, and a signup
\* attempt with a field empty or the password different from its
\* confirmation, sets the error message, leaves the loading flag false and
\* issues no external call.
C14_ChecksRejectBeforeCalls ==
  /\ (last.op = "login" /\ (email = "" \/ password = "")) =>
       /\ error = "Please enter both email and password."
       /\ ~isLoading
       /\ authCall = "none"
  /\ (last.op = "signup"
        /\ (email = "" \/ password = "" \/ passwordConfirm = "" \/ name = "")) =>
       /\ error = "Please fill in all required fields."
       /\ ~isLoading
       /\ authCall = "none"
  /\ (last.op = "signup" /\ password # passwordConfirm) =>
       /\ error \in {"Please fill in all required fields.", "Passwords do not match."}
       /\ ~isLoading
       /\ authCall = "none"

C14_Witness ==
  /\ last.op = "signup"
  /\ email # "" /\ name # "" /\ password # "" /\ passwordConfirm # ""
  /\ password # passwordConfirm
  /\ error = "Passwords do not match."

\* C16: the loading flag is true exactly while an external call of the
\* authentication view is in flight: an attempt that passes the checks sets
\* it, the call's success or failure resets it, and the signup's
\* authWithPassword call is in flight only after its create call succeeded;
\* a failed create call issues none and sets the error message.
C16_LoadingIsCallInFlight ==
  /\ isLoading = (authCall # "none")
  /\ (last.op = "login" /\ email # "" /\ password # "") =>
       (isLoading /\ authCall = "login")
  /\ (last.op = "signup" /\ email # "" /\ password # "" /\ name # ""
        /\ password = passwordConfirm) =>
       (isLoading /\ authCall = "create")
  /\ last.op \in {"authOk", "authFail"} => (~isLoading /\ authCall = "none")
  /\ authCall = "signupAuth" => last.op = "created"
  /\ (last.op = "authFail" /\ last.call = "create") => error # NoError

C16_LoadingWhileInFlight ==
  /\ []C16_LoadingIsCallInFlight
  /\ isLoading ~> ~isLoading

C16_Witness ==
  /\ last.op = "authFail"
  /\ last.call = "create"
  /\ ~isLoginView
  /\ error = "Account with this email already exists"

====
